---- MODULE Spec2Model ----
(***************************************************************************)
(* Model of src/index.ts: the VirtualTimeController (virtual time budget   *)
(* chunking aligned on animation frames, screenshots stamped with the      *)
(* controller's frame time) and the capture loop of run().                 *)
(*                                                                         *)
(* Time: totalElapsedTime_, remainingBudget_, lastGrantedChunk_ and all    *)
(* budgets are whole milliseconds.  virtualTimeBase_ and every frame time  *)
(* are kept in ticks of 0.01 ms, the step the source adds to the base      *)
(* after a screenshot, so that the source's "+= 0.01" is exact here.       *)
(*                                                                         *)
(* Every await of the source is a suspension point: the call that sends a  *)
(* protocol command is one action, the acknowledgment together with the    *)
(* code that runs after the await is another.  Code that runs              *)
(* synchronously inside a handler (a callback, a nested grantTime) is part *)
(* of the handler's action.                                                *)
(***************************************************************************)
EXTENDS Integers, Sequences, FiniteSets, TLC

\* ---------------------------------------------------------------- bounds
\* Budgets a caller of the controller grants: 0..MaxBudget milliseconds.
MaxBudget == 3
\* Animation frame intervals passed to the constructor: 0 (absent)..Max.
MaxAnimationInterval == 2
\* Calls of grantTime (after grantInitialTime), captureScreenshot and
\* stopVirtualTimeGracefully a caller of the controller makes in one
\* behaviour.
MaxGrants == 1
MaxCaptures == 2
MaxStops == 2
\* --frameCount values of a session: 0..MaxFrameCount.
MaxFrameCount == 3
\* Runtime.exceptionThrown events a page raises during a session.
MaxExceptions == 1
\* Expiry events that overtake the acknowledgment of their chunk's policy
\* and are counted.
MaxRaces == 2

\* ------------------------------------------------------ program constants
\* 1 ms in ticks of 0.01 ms; the base advances by one tick per screenshot.
TicksPerMs == 100
EpsilonTicks == 1
DefaultAnimationFrameInterval == 16
\* run(): grantInitialTime(1, 10000, ...)
RunInitialBudget == 1
RunInitialVirtualTime == 10000
\* File names are frame-NNNNNNN: padStart(7, '0').
FrameNameWidth == 7

Budgets == 0..MaxBudget
AnimationIntervalArgs == 0..MaxAnimationInterval
\* initialVirtualTime arguments and the bases (ticks) the engine answers.
InitialVirtualTimes == {RunInitialVirtualTime}
TimeBases == {0, RunInitialVirtualTime * TicksPerMs}
\* The base answered to a caller outside a session: the controller only
\* ever adds to the base it is given.
CallerTimeBases == {RunInitialVirtualTime * TicksPerMs}
\* --frameInterval values of a session, around the 16 ms animation frame.
FrameIntervals == {0, 1, 15, 16, 33}
FrameCounts == 0..MaxFrameCount

\* ---------------------------------------------------------------- helpers
Min(a, b) == IF a < b THEN a ELSE b

\* JavaScript's %: the remainder takes the sign of the dividend.
JsRem(a, b) == IF a >= 0 THEN a % b ELSE -((-a) % b)

\* animationFrameInterval || 16
AnimationFrameIntervalOf(arg) ==
    IF arg = 0 THEN DefaultAnimationFrameInterval ELSE arg

VARIABLES
    \* fields of VirtualTimeController
    animationFrameInterval_, virtualTimeBase_, remainingBudget_,
    lastGrantedChunk_, totalElapsedTime_, onInstalled_, onExpired_,
    \* the protocol round trip the controller is suspended on
    pc,
    \* locals that live across an await: scheduleNextChunk_'s chunk,
    \* captureScreenshot's frameTimeTicks and grantInitialTime's budget
    \* and callbacks
    chunk, frameTimeTicks, initArgs,
    \* run(): configuration, frameCounter, allFrameFilenames, progress
    totalFramesToCapture, timeBetweenFramesInMilliseconds,
    frameCounter, allFrameFilenames, phase, nav,
    \* history: the commands and callbacks of the installation, in order
    \* (up to the first onInstalled), and the frame times of the
    \* screenshots taken
    installTrace, captured,
    \* history: the budgets granted so far, the budget of the current
    \* grant, the chunks submitted for it, whether it was revoked, and
    \* whether it was revoked while a chunk was in flight
    granted, grantBudget, chunkSum, revoked, stoppedInFlight,
    \* history: the calls of stopVirtualTimeGracefully made after a grant
    \* had expired, with the controller idle and no budget remaining
    stopsAfterExpiry,
    \* history: whether some grantTime found a budget still remaining, the
    \* onInstalled and onExpired callbacks fired and the last argument
    overlapped, nInstalled, nExpired, expiredArg,
    \* history: calls made
    nGrants, nCaptures, nStops,
    \* history: Runtime.exceptionThrown events handled (messages logged)
    nExceptions,
    \* run(): the command line's --noVideo and --keepFrames
    noVideo, keepFrames,
    \* run(): the ffmpeg command: none, running, ended or failed
    encoder,
    \* run(): the frame files unlinked, in order
    deletedFrames,
    \* the promise of grantInitialTime, which run() awaits: none, pending,
    \* resolved or rejected
    initialCall,
    \* where a rejected protocol call ended: none, caught (run().catch) or
    \* unhandled (no handler on the promise)
    rejection,
    \* the outcome of the process: none while nothing failed it, or failed
    outcome,
    \* history: the waitForNavigation flag of the last chunk request, the
    \* chunk requests sent and those sent with the flag
    waitForNavigation, nChunks, navWaits,
    \* history: whether the last chunk request was sent by the continuation
    \* of a display-suppressed beginFrame, and that frame's frameTimeTicks
    tickBefore, tickFrameTime,
    \* history: expiry events handled before the continuation of their
    \* chunk's policy request ran
    nRaces,
    \* history: the frameTimeTicks of every beginFrame sent, in order
    rendered,
    \* history: whether such expiry events are not counted; the history of
    \* the chunk requests is then not kept
    unrecorded

ctlVars == <<animationFrameInterval_, virtualTimeBase_, remainingBudget_,
             lastGrantedChunk_, totalElapsedTime_, onInstalled_, onExpired_>>
runVars == <<totalFramesToCapture, timeBetweenFramesInMilliseconds,
             frameCounter, allFrameFilenames, phase, nav,
             noVideo,
             keepFrames,
             encoder,
             deletedFrames,
             initialCall,
             rejection,
             outcome>>
histVars == <<installTrace, captured, granted, grantBudget, chunkSum,
              revoked, stoppedInFlight, stopsAfterExpiry, overlapped, nInstalled, nExpired,
              expiredArg, nGrants, nCaptures, nStops,
             nExceptions,
             waitForNavigation,
             nChunks,
             navWaits,
             tickBefore,
             tickFrameTime,
             nRaces,
             rendered,
             unrecorded>>
vars == <<ctlVars, pc, chunk, frameTimeTicks, initArgs, runVars, histVars>>

\* The whole state as a record, so that code running synchronously inside a
\* handler composes as function application.
Cur ==
    [animationFrameInterval_ |-> animationFrameInterval_,
     virtualTimeBase_ |-> virtualTimeBase_,
     remainingBudget_ |-> remainingBudget_,
     lastGrantedChunk_ |-> lastGrantedChunk_,
     totalElapsedTime_ |-> totalElapsedTime_,
     onInstalled_ |-> onInstalled_,
     onExpired_ |-> onExpired_,
     pc |-> pc, chunk |-> chunk, frameTimeTicks |-> frameTimeTicks,
     initArgs |-> initArgs,
     totalFramesToCapture |-> totalFramesToCapture,
     timeBetweenFramesInMilliseconds |-> timeBetweenFramesInMilliseconds,
     frameCounter |-> frameCounter,
     allFrameFilenames |-> allFrameFilenames,
     phase |-> phase, nav |-> nav,
     installTrace |-> installTrace, captured |-> captured,
     granted |-> granted, grantBudget |-> grantBudget,
     chunkSum |-> chunkSum, revoked |-> revoked,
     stoppedInFlight |-> stoppedInFlight,
     stopsAfterExpiry |-> stopsAfterExpiry, overlapped |-> overlapped,
     nInstalled |-> nInstalled, nExpired |-> nExpired,
     expiredArg |-> expiredArg,
     nGrants |-> nGrants, nCaptures |-> nCaptures, nStops |-> nStops,
     nExceptions |-> nExceptions,
     noVideo |-> noVideo,
     keepFrames |-> keepFrames,
     encoder |-> encoder,
     deletedFrames |-> deletedFrames,
     initialCall |-> initialCall,
     rejection |-> rejection,
     outcome |-> outcome,
     waitForNavigation |-> waitForNavigation,
     nChunks |-> nChunks,
     navWaits |-> navWaits,
     tickBefore |-> tickBefore,
     tickFrameTime |-> tickFrameTime,
     nRaces |-> nRaces,
     rendered |-> rendered,
     unrecorded |-> unrecorded]

\* The history of the chunk requests is kept for a bounded number of
\* them: it is dropped where the requests may go on for ever.
Kept(r) ==
    IF r.unrecorded
    THEN [r EXCEPT !.nRaces = 0,
                   !.nChunks = 0,
                   !.navWaits = 0,
                   !.chunkSum = 0,
                   !.rendered = <<>>,
                   !.installTrace = <<>>]
    ELSE r

\* The state after a handler: every variable takes its field of the
\* handler's result, which is computed once.
Becomes(result) ==
    \E s \in {Kept(result)} :
        /\ animationFrameInterval_' = s.animationFrameInterval_
        /\ virtualTimeBase_' = s.virtualTimeBase_
        /\ remainingBudget_' = s.remainingBudget_
        /\ lastGrantedChunk_' = s.lastGrantedChunk_
        /\ totalElapsedTime_' = s.totalElapsedTime_
        /\ onInstalled_' = s.onInstalled_
        /\ onExpired_' = s.onExpired_
        /\ pc' = s.pc
        /\ chunk' = s.chunk
        /\ frameTimeTicks' = s.frameTimeTicks
        /\ initArgs' = s.initArgs
        /\ totalFramesToCapture' = s.totalFramesToCapture
        /\ timeBetweenFramesInMilliseconds' = s.timeBetweenFramesInMilliseconds
        /\ frameCounter' = s.frameCounter
        /\ allFrameFilenames' = s.allFrameFilenames
        /\ phase' = s.phase
        /\ nav' = s.nav
        /\ installTrace' = s.installTrace
        /\ captured' = s.captured
        /\ granted' = s.granted
        /\ grantBudget' = s.grantBudget
        /\ chunkSum' = s.chunkSum
        /\ revoked' = s.revoked
        /\ stoppedInFlight' = s.stoppedInFlight
        /\ stopsAfterExpiry' = s.stopsAfterExpiry
        /\ overlapped' = s.overlapped
        /\ nInstalled' = s.nInstalled
        /\ nExpired' = s.nExpired
        /\ expiredArg' = s.expiredArg
        /\ nGrants' = s.nGrants
        /\ nCaptures' = s.nCaptures
        /\ nStops' = s.nStops
        /\ nExceptions' = s.nExceptions
        /\ noVideo' = s.noVideo
        /\ keepFrames' = s.keepFrames
        /\ encoder' = s.encoder
        /\ deletedFrames' = s.deletedFrames
        /\ initialCall' = s.initialCall
        /\ rejection' = s.rejection
        /\ outcome' = s.outcome
        /\ waitForNavigation' = s.waitForNavigation
        /\ nChunks' = s.nChunks
        /\ navWaits' = s.navWaits
        /\ tickBefore' = s.tickBefore
        /\ tickFrameTime' = s.tickFrameTime
        /\ nRaces' = s.nRaces
        /\ rendered' = s.rendered
        /\ unrecorded' = s.unrecorded

\* The installation's history: a command sent or a callback fired (k) and
\* its value (v: a budget or a virtual time in ms, a frame time in ticks),
\* recorded until onInstalled has fired.
Traced(s, k, v) ==
    IF s.nInstalled = 0
    THEN [s EXCEPT !.installTrace = Append(@, <<k, v>>)]
    ELSE s

\* ------------------------------------------------- VirtualTimeController
\* A frame time that leaves the elapsed time out.
FrameTimeWithoutElapsed(base, elapsed) == base

\* currentFrameTime(): virtualTimeBase_ + totalElapsedTime_, in ticks.
CurrentFrameTime(base, elapsed) == base + elapsed * TicksPerMs

\* A captureScreenshot that leaves the base where it was.
TimeBaseNotAdvanced(base) == base

\* captureScreenshot: this.virtualTimeBase_ += 0.01
AdvancedTimeBase(base) == base + EpsilonTicks

\* A chunk that takes a whole animation frame wherever it starts.
NextChunkWholeFrame(interval, elapsed, remaining) == Min(interval, remaining)

\* scheduleNextChunk_: Math.min(interval - elapsed % interval, remaining)
NextChunk(interval, elapsed, remaining) ==
    Min(interval - JsRem(elapsed, interval), remaining)

\* scheduleNextChunk_: waitForNavigation: this.totalElapsedTime_ === 0
WaitForNavigation(elapsed) == elapsed = 0

\* A condition that also holds before any time has elapsed.
AtFrameBoundaryOrStart(interval, elapsed, remaining) ==
    /\ remaining > 0
    /\ JsRem(elapsed, interval) = 0

\* issueAnimationFrameAndScheduleNextChunk_: the two nested conditions
\* under which a beginFrame with noDisplayUpdates is sent first.
AtFrameBoundary(interval, elapsed, remaining) ==
    /\ elapsed > 0
    /\ remaining > 0
    /\ JsRem(elapsed, interval) = 0

\* An expiry handler that counts a whole animation frame per chunk, and
\* one that ends a grant one millisecond early.
ElapsedAfterWholeFrame(elapsed, last) == elapsed + animationFrameInterval_

GrantCompleteEarly(remaining) == remaining <= 1

\* An expiry handler that takes every chunk for the last of its grant.
GrantCompleteAlways(remaining) == TRUE

\* The expiry handler's bookkeeping and its test for the end of a grant.
ElapsedAfterChunk(elapsed, last) == elapsed + last

RemainingAfterChunk(remaining, last) == remaining - last

GrantComplete(remaining) == remaining = 0

\* A stop that always leaves the chunk last granted as the budget.
RevokedToLastChunk(remaining) == lastGrantedChunk_

\* stopVirtualTimeGracefully: if (remainingBudget_) remainingBudget_ = 0
RevokedBudget(remaining) == IF remaining # 0 THEN 0 ELSE remaining

\* scheduleNextChunk_: this.onInstalled_ = undefined after the call
InstalledCallbackAfterCall(cb) == "none"

\* ------------------------------------------------------------- run()
\* `frame-${frameCounter.toString().padStart(7, '0')}`: the decimal digits
\* of n, padded on the left with zeros to seven (never cut).
RECURSIVE Digits(_)
Digits(n) == IF n < 10 THEN <<n>> ELSE Append(Digits(n \div 10), n % 10)

RECURSIVE PadStart(_, _)
PadStart(ds, width) ==
    IF Len(ds) >= width THEN ds ELSE PadStart(<<0>> \o ds, width)

FrameFilename(n) == PadStart(Digits(n), FrameNameWidth)

\* The sequence number a frame file name carries: its digits read as a
\* decimal number, as the encoder's frame-%07d input pattern reads them.
RECURSIVE FrameNumber(_)
FrameNumber(name) ==
    IF name = <<>> THEN 0
    ELSE FrameNumber(SubSeq(name, 1, Len(name) - 1)) * 10 + name[Len(name)]

\* A loop that asks for one more frame after the last one.
MoreFramesInclusive(counter, total) == counter <= total

\* timeExpired: if (frameCounter++ < totalFramesToCapture)
MoreFrames(counter, total) == counter < total

\* A handler that gives up the frame being captured.
OnExceptionThrownSkipsFrame(s) ==
    [s EXCEPT !.nExceptions = @ + 1, !.frameCounter = @ + 1]

\* onExceptionThrown(e): it builds a message and logs it.
OnExceptionThrown(s) == [s EXCEPT !.nExceptions = @ + 1]

\* if (!argv.keepFrames) allFrameFilenames.map(fs.unlinkSync): the files
\* unlinked.
FramesToUnlink(keep, frames) == IF ~keep THEN frames ELSE <<>>

\* timeExpired after the browser is gone: with video, the ffmpeg command
\* is started on the frame files; without, the frames are cleaned up.
EncodeOrCleanUp(s) ==
    IF ~s.noVideo
    THEN [s EXCEPT !.encoder = "running"]
    ELSE [s EXCEPT !.deletedFrames =
                       @ \o FramesToUnlink(s.keepFrames, s.allFrameFilenames)]

\* The ffmpeg command's 'end' handler.
EncoderOnEnd(s) ==
    [s EXCEPT !.encoder = "ended",
              !.deletedFrames =
                  @ \o FramesToUnlink(s.keepFrames, s.allFrameFilenames)]

\* An 'error' handler that cleans up as the 'end' handler does.
EncoderOnErrorCleansUp(s) == [EncoderOnEnd(s) EXCEPT !.encoder = "failed"]

\* The ffmpeg command's 'error' handler: it logs the message.
EncoderOnError(s) == [s EXCEPT !.encoder = "failed"]

\* A timeExpired that starts encoding as soon as the target is closed.
TargetClosedStartsEncoder(s) ==
    [EncodeOrCleanUp(s) EXCEPT !.phase = "closingCri"]

\* timeExpired after await newTarget.close(), after await cri.close() and
\* after await launchedChrome.kill().
TargetClosed(s) == [s EXCEPT !.phase = "closingCri"]

CriClosed(s) == [s EXCEPT !.phase = "killing"]

ChromeKilled(s) == EncodeOrCleanUp([s EXCEPT !.phase = "finished"])

\* scheduleNextChunk_(): compute the chunk and send it as a budget.
ScheduleNextChunk(s) ==
    LET c == NextChunk(s.animationFrameInterval_, s.totalElapsedTime_,
                       s.remainingBudget_)
        w == WaitForNavigation(s.totalElapsedTime_)
    IN  [Traced(s, "chunk", c)
            EXCEPT !.chunk = c,
                   !.pc = "policySent",
                   !.chunkSum = @ + c,
                   !.tickBefore = (s.pc = "tickSent"),
                   !.waitForNavigation = w,
                   !.nChunks = @ + 1,
                   !.navWaits = IF w THEN @ + 1 ELSE @]

\* issueAnimationFrameAndScheduleNextChunk_(), up to its first await.
IssueAnimationFrameAndScheduleNextChunk(s) ==
    IF AtFrameBoundary(s.animationFrameInterval_, s.totalElapsedTime_,
                       s.remainingBudget_)
    THEN [Traced(s, "tick",
                 CurrentFrameTime(s.virtualTimeBase_, s.totalElapsedTime_))
            EXCEPT !.pc = "tickSent",
                   !.tickFrameTime =
                       CurrentFrameTime(s.virtualTimeBase_,
                                        s.totalElapsedTime_),
                   !.rendered =
                       Append(@, CurrentFrameTime(s.virtualTimeBase_,
                                                  s.totalElapsedTime_))]
    ELSE ScheduleNextChunk(s)

\* grantTime(budget, onExpired), up to its first await.
GrantTime(s, budget, onExpired) ==
    IssueAnimationFrameAndScheduleNextChunk(
        [s  EXCEPT !.remainingBudget_ = budget,
                   !.onExpired_ = onExpired,
                   !.overlapped = @ \/ s.remainingBudget_ # 0,
                   !.granted = @ + budget,
                   !.grantBudget = budget,
                   !.chunkSum = 0,
                   !.revoked = FALSE,
                   !.stoppedInFlight = FALSE,
                   !.nGrants = @ + 1])

\* captureScreenshot(options), up to its await: the frame time is read
\* before the beginFrame is sent.
CaptureScreenshot(s) ==
    LET t == CurrentFrameTime(s.virtualTimeBase_, s.totalElapsedTime_)
    IN  [Traced(s, "capture", t)
            EXCEPT !.frameTimeTicks = t,
                   !.captured = Append(@, t),
                   !.rendered = Append(@, t),
                   !.pc = "captureSent",
                   !.nCaptures = @ + 1]

\* The onInstalled callbacks, up to their first await.  run()'s sends
\* Page.navigate.
OnInstalled(s) ==
    LET fired == [Traced(s, "onInstalled", s.virtualTimeBase_)
                    EXCEPT !.nInstalled = @ + 1]
    IN  IF s.onInstalled_ = "navigate"
        THEN [fired EXCEPT !.nav = "navigating"]
        ELSE fired

\* The onExpired callbacks, up to their first await.  run()'s first one
\* starts the loop (frameCounter = 1, an empty list, grantTime); its
\* second one, timeExpired, starts with captureScreenshot.
OnExpired(s) ==
    LET fired == [Traced(s, "onExpired", s.totalElapsedTime_)
                    EXCEPT !.pc = "idle",
                           !.nExpired = @ + 1,
                           !.expiredArg = s.totalElapsedTime_,
                           !.stoppedInFlight = FALSE]
    IN  CASE s.onExpired_ = "first" ->
                GrantTime([fired EXCEPT !.frameCounter = 1,
                                        !.allFrameFilenames = <<>>,
                                        !.phase = "capturing"],
                          s.timeBetweenFramesInMilliseconds, "timeExpired")
          [] s.onExpired_ = "timeExpired" -> CaptureScreenshot(fired)
          [] OTHER -> fired

\* The handler of Emulation.virtualTimeBudgetExpired.
VirtualTimeBudgetExpired(s) ==
    LET s1 == [s EXCEPT
                 !.totalElapsedTime_ =
                     ElapsedAfterChunk(@, s.lastGrantedChunk_),
                 !.remainingBudget_ =
                     RemainingAfterChunk(@, s.lastGrantedChunk_)]
    IN  IF GrantComplete(s1.remainingBudget_)
        THEN IF s1.onExpired_ # "none"
             THEN OnExpired(s1)
             ELSE [s1 EXCEPT !.pc = "idle"]
        ELSE IssueAnimationFrameAndScheduleNextChunk(s1)

\* scheduleNextChunk_() after its await.  When it returns for the first
\* chunk, grantTime and grantInitialTime return with it.
ScheduleNextChunkAcked(s) ==
    LET s1 == [s EXCEPT !.lastGrantedChunk_ = s.chunk,
                        !.pc = "running",
                        !.initialCall =
                            IF @ = "pending" THEN "resolved" ELSE @]
    IN  IF s1.onInstalled_ # "none"
        THEN [OnInstalled(s1) EXCEPT
                !.onInstalled_ = InstalledCallbackAfterCall(@)]
        ELSE s1

\* The expiry event of a chunk is handled while scheduleNextChunk_ is still
\* suspended on that chunk's policy request: the acknowledgment has
\* resolved the promise, but the event is emitted before the continuation
\* gets to run.  The handler runs first, up to its first await, with the
\* lastGrantedChunk_ of the scheduling step before; then the suspended
\* scheduleNextChunk_ resumes with its own chunk.
ExpiredBeforeAck(s) ==
    LET h == VirtualTimeBudgetExpired([s EXCEPT !.nRaces = @ + 1])
    IN  [ScheduleNextChunkAcked([h EXCEPT !.chunk = s.chunk])
            EXCEPT !.pc = h.pc, !.chunk = h.chunk]

\* The same turn of the event loop, not counted: the program's state
\* changes as in ExpiredBeforeAck.
ExpiredBeforeAckUnrecorded(s) ==
    ExpiredBeforeAck([s EXCEPT !.unrecorded = TRUE])

\* stopVirtualTimeGracefully().
StopVirtualTimeGracefully(s) ==
    [s EXCEPT !.remainingBudget_ = RevokedBudget(@),
              !.revoked = @ \/ s.remainingBudget_ # 0,
              !.stoppedInFlight =
                  @ \/ (s.pc = "running" /\ s.remainingBudget_ > 0),
              !.stopsAfterExpiry =
                  IF s.pc = "idle" /\ s.nExpired > 0
                        /\ s.remainingBudget_ = 0
                  THEN @ + 1 ELSE @,
              !.nStops = @ + 1]

\* grantInitialTime(budget, initialVirtualTime, onInstalled, onExpired), up
\* to its first await: the pause policy is sent.
GrantInitialTime(s, budget, initialVirtualTime, onInstalled, onExpired) ==
    [Traced(s, "pause", initialVirtualTime)
        EXCEPT !.pc = "pauseSent",
               !.initialCall = "pending",
               !.initArgs = [budget |-> budget,
                             onInstalled |-> onInstalled,
                             onExpired |-> onExpired]]

\* grantInitialTime after the pause policy is acknowledged with the base
\* `base`: the first frame is requested, fully updated.
PauseAcked(s, base) ==
    [Traced([s EXCEPT !.virtualTimeBase_ = base], "frame", base)
        EXCEPT !.pc = "initialFrameSent",
               !.rendered = Append(@, base)]

\* grantInitialTime after the first frame: onInstalled_ is stored and the
\* budget granted.
InitialFrameAcked(s) ==
    GrantTime([s EXCEPT !.onInstalled_ = s.initArgs.onInstalled],
              s.initArgs.budget, s.initArgs.onExpired)

\* captureScreenshot after its await, and what its caller does with the
\* screenshot.  timeExpired names and stores the frame, then grants the
\* next interval or ends the session.
CaptureAcked(s) ==
    LET s1 == [s EXCEPT !.virtualTimeBase_ = AdvancedTimeBase(@),
                        !.pc = "idle"]
    IN  IF s.phase = "capturing"
        THEN LET s2 == [s1 EXCEPT
                          !.allFrameFilenames =
                              Append(@, FrameFilename(s.frameCounter)),
                          !.frameCounter = @ + 1]
             IN  IF MoreFrames(s.frameCounter, s.totalFramesToCapture)
                 THEN GrantTime(s2, s.timeBetweenFramesInMilliseconds,
                                "timeExpired")
                 ELSE [s2 EXCEPT !.phase = "closingTarget"]
        ELSE s1

\* A protocol call the controller awaits is rejected: the await throws
\* and every async function up the chain rejects.  While grantInitialTime
\* is pending the chain ends in run(), whose rejection run().catch logs
\* with console.error.  Later chains start in the handler of
\* virtualTimeBudgetExpired or in a callback it called without await:
\* nothing handles their rejection, and the runtime either fails the
\* process (fatal) or warns and goes on.
CallRejected(s, fatal) ==
    IF s.initialCall = "pending"
    THEN [s EXCEPT !.pc = "rejected",
                   !.initialCall = "rejected",
                   !.rejection = "caught"]
    ELSE [s EXCEPT !.pc = "rejected",
                   !.rejection = "unhandled",
                   !.outcome = IF fatal THEN "failed" ELSE @]

\* ---------------------------------------------------------------- actions
\* A caller of the controller: one call at a time, grantTime only after
\* the previous grant's onExpired, screenshots between grants.
CallGrantInitialTime(budget, initialVirtualTime) ==
    /\ phase = "api"
    /\ pc = "new"
    /\ Becomes(GrantInitialTime(Cur, budget, initialVirtualTime,
                                "api", "api"))

CallGrantTime(budget) ==
    /\ phase = "api"
    /\ pc = "idle"
    /\ nGrants <= MaxGrants
    /\ Becomes(GrantTime(Cur, budget, "api"))

CallCaptureScreenshot ==
    /\ phase = "api"
    /\ pc = "idle"
    /\ nCaptures < MaxCaptures
    /\ Becomes(CaptureScreenshot(Cur))

CallStopVirtualTimeGracefully ==
    /\ phase = "api"
    /\ nStops < MaxStops
    /\ Becomes(StopVirtualTimeGracefully(Cur))

\* The remote engine: it acknowledges each command, and reports the expiry
\* of a budget after it has acknowledged the policy that set it.
AckPause(base) ==
    /\ pc = "pauseSent"
    /\ Becomes(PauseAcked(Cur, base))

AckInitialFrame ==
    /\ pc = "initialFrameSent"
    /\ Becomes(InitialFrameAcked(Cur))

AckTick ==
    /\ pc = "tickSent"
    /\ Becomes(ScheduleNextChunk(Cur))

AckPolicy ==
    /\ pc = "policySent"
    /\ Becomes(ScheduleNextChunkAcked(Cur))

BudgetExpired ==
    /\ pc = "running"
    /\ Becomes(VirtualTimeBudgetExpired(Cur))

AckCapture ==
    /\ pc = "captureSent"
    /\ Becomes(CaptureAcked(Cur))

\* run(): the session.
RunStart ==
    /\ phase = "start"
    /\ pc = "new"
    /\ Becomes(GrantInitialTime([Cur EXCEPT !.phase = "installing"],
                                RunInitialBudget, RunInitialVirtualTime,
                                "navigate", "first"))

\* onInstalled after Page.navigate is acknowledged: it waits for the load
\* event.
AckNavigate ==
    /\ nav = "navigating"
    /\ Becomes([Cur EXCEPT !.nav = "waitingLoad"])

LoadEventFired ==
    /\ nav = "waitingLoad"
    /\ Becomes([Cur EXCEPT !.nav = "loaded"])

\* The page throws an exception nothing catches; the handler registered
\* with cri.on('Runtime.exceptionThrown', ...) runs, at any time between
\* the start of the session and the closing of the connection.
ExceptionThrown ==
    /\ phase \in {"installing", "capturing", "closingTarget"}
    /\ nExceptions < MaxExceptions
    /\ Becomes(OnExceptionThrown(Cur))

\* timeExpired's end: newTarget.close(), cri.close(), launchedChrome.kill().
AckCloseTarget ==
    /\ phase = "closingTarget"
    /\ Becomes(TargetClosed(Cur))

AckCloseCri ==
    /\ phase = "closingCri"
    /\ Becomes(CriClosed(Cur))

AckKill ==
    /\ phase = "killing"
    /\ Becomes(ChromeKilled(Cur))

\* The ffmpeg process ends: it emits 'end' or 'error'.
EncoderEnd ==
    /\ encoder = "running"
    /\ Becomes(EncoderOnEnd(Cur))

EncoderError ==
    /\ encoder = "running"
    /\ Becomes(EncoderOnError(Cur))

\* The engine rejects the command the controller waits on.
RejectCall ==
    /\ pc \in {"pauseSent", "initialFrameSent", "tickSent", "policySent",
               "captureSent"}
    /\ \E fatal \in BOOLEAN : Becomes(CallRejected(Cur, fatal))

\* The engine's expiry event overtakes the policy's acknowledgment.
BudgetExpiredBeforeAck ==
    /\ pc = "policySent"
    /\ ~unrecorded
    /\ nRaces < MaxRaces
    /\ Becomes(ExpiredBeforeAck(Cur))

\* It does so any number of times.
BudgetExpiredBeforeAckAgain ==
    /\ pc = "policySent"
    /\ nRaces = 0
    /\ Becomes(ExpiredBeforeAckUnrecorded(Cur))

\* ---------------------------------------------------------- specifications
InitCommon ==
    /\ virtualTimeBase_ = 0
    /\ remainingBudget_ = 0
    /\ lastGrantedChunk_ = 0
    /\ totalElapsedTime_ = 0
    /\ onInstalled_ = "none"
    /\ onExpired_ = "none"
    /\ pc = "new"
    /\ chunk = 0
    /\ frameTimeTicks = 0
    /\ initArgs = [budget |-> 0, onInstalled |-> "none", onExpired |-> "none"]
    /\ frameCounter = 0
    /\ allFrameFilenames = <<>>
    /\ nav = "none"
    /\ installTrace = <<>>
    /\ captured = <<>>
    /\ granted = 0
    /\ grantBudget = 0
    /\ chunkSum = 0
    /\ revoked = FALSE
    /\ stoppedInFlight = FALSE
    /\ stopsAfterExpiry = 0
    /\ overlapped = FALSE
    /\ nInstalled = 0
    /\ nExpired = 0
    /\ expiredArg = 0
    /\ nGrants = 0
    /\ nCaptures = 0
    /\ nStops = 0
    /\ nExceptions = 0
    /\ encoder = "none"
    /\ deletedFrames = <<>>
    /\ initialCall = "none"
    /\ rejection = "none"
    /\ outcome = "none"
    /\ waitForNavigation = FALSE
    /\ nChunks = 0
    /\ navWaits = 0
    /\ tickBefore = FALSE
    /\ tickFrameTime = 0
    /\ nRaces = 0
    /\ rendered = <<>>
    /\ unrecorded = FALSE

\* A controller constructed with any animation frame interval, driven by a
\* caller through its public methods.
Init ==
    /\ InitCommon
    /\ animationFrameInterval_ \in
           {AnimationFrameIntervalOf(a) : a \in AnimationIntervalArgs}
    /\ phase = "api"
    /\ totalFramesToCapture = 0
    /\ timeBetweenFramesInMilliseconds = 0
    /\ noVideo = FALSE
    /\ keepFrames = FALSE

Next ==
    \/ \E b \in Budgets, t \in InitialVirtualTimes : CallGrantInitialTime(b, t)
    \/ \E b \in Budgets : CallGrantTime(b)
    \/ CallCaptureScreenshot
    \/ CallStopVirtualTimeGracefully
    \/ \E base \in CallerTimeBases : AckPause(base)
    \/ AckInitialFrame
    \/ AckTick
    \/ AckPolicy
    \/ BudgetExpired
    \/ AckCapture

Spec == Init /\ [][Next]_vars

\* run(): new VirtualTimeController(newTarget) and the command line's
\* --frameInterval, --frameCount, --noVideo and --keepFrames.
InitRun ==
    /\ InitCommon
    /\ animationFrameInterval_ = AnimationFrameIntervalOf(0)
    /\ phase = "start"
    /\ totalFramesToCapture \in FrameCounts
    /\ timeBetweenFramesInMilliseconds \in FrameIntervals
    /\ noVideo \in BOOLEAN
    /\ keepFrames \in BOOLEAN

NextRun ==
    \/ RunStart
    \/ \E base \in TimeBases : AckPause(base)
    \/ AckInitialFrame
    \/ AckTick
    \/ AckPolicy
    \/ BudgetExpired
    \/ BudgetExpiredBeforeAck
    \/ AckCapture
    \/ AckNavigate
    \/ LoadEventFired
    \/ ExceptionThrown
    \/ AckCloseTarget
    \/ AckCloseCri
    \/ AckKill
    \/ EncoderEnd
    \/ EncoderError

SpecRun == InitRun /\ [][NextRun]_vars

\* A session in which the engine may reject a protocol call.
NextFail ==
    \/ NextRun
    \/ RejectCall

SpecFail == InitRun /\ [][NextFail]_vars

\* A controller and its caller, with an engine whose expiry event may be
\* handled before the acknowledgment of the policy that set the budget.
NextRace ==
    \/ Next
    \/ BudgetExpiredBeforeAck

SpecRace == Init /\ [][NextRace]_vars

\* The engine answers the command the controller waits on or reports the
\* expiry of the chunk in flight; the acknowledgment of a policy is read
\* alone or in one turn with the expiry event of its chunk.
EngineStep ==
    \/ \E base \in TimeBases : AckPause(base)
    \/ AckInitialFrame
    \/ AckTick
    \/ AckPolicy
    \/ BudgetExpired
    \/ BudgetExpiredBeforeAck
    \/ BudgetExpiredBeforeAckAgain
    \/ AckCapture

\* run() is called when the program starts, and the closing of the target,
\* of the connection and of the browser complete.
RunStep ==
    \/ RunStart
    \/ AckCloseTarget
    \/ AckCloseCri
    \/ AckKill

\* No fairness is assumed of the caller of the controller, of the page's
\* navigation and exceptions or of the encoder.
EngineAnswers ==
    /\ WF_vars(EngineStep)
    /\ WF_vars(RunStep)

\* Either system with an engine that answers, and whose expiry events
\* may overtake the acknowledgments any number of times: a controller whose
\* caller grants budgets (it revokes none and takes no screenshots), or a
\* session.
InitLive == Init \/ InitRun

NextLive ==
    \/ \E b \in Budgets, t \in InitialVirtualTimes : CallGrantInitialTime(b, t)
    \/ \E b \in Budgets : CallGrantTime(b)
    \/ NextRun
    \/ BudgetExpiredBeforeAckAgain

SpecLive == InitLive /\ [][NextLive]_vars /\ EngineAnswers


C3_ElapsedPlusRemaining ==
    nStops = 0 => totalElapsedTime_ + remainingBudget_ = granted

\* In the middle of a second grant, after a screenshot.
C3_Witness ==
    /\ nStops = 0
    /\ nGrants = 2
    /\ nCaptures > 0
    /\ pc = "running"
    /\ totalElapsedTime_ > 0
    /\ remainingBudget_ > lastGrantedChunk_
    /\ lastGrantedChunk_ > 0

\* C4: elapsedTime never decreases across a step, and an onExpired callback
\* fired while no grant has been revoked gets the sum of the budgets
\* granted so far, which is elapsedTime().
C4_ElapsedMonotone ==
    [][/\ totalElapsedTime_' >= totalElapsedTime_
       /\ (nExpired' = nExpired + 1 /\ nStops = 0) =>
              /\ expiredArg' = granted
              /\ totalElapsedTime_' = granted]_vars

C6_FrameNumbersContiguous ==
    phase \in {"closingTarget", "closingCri", "killing", "finished"} =>
        /\ Len(allFrameFilenames) = totalFramesToCapture
        /\ \A i \in 1..Len(allFrameFilenames) :
              FrameNumber(allFrameFilenames[i]) = i

\* C7: in a session no grantTime is called while a budget of the previous
\* grant remains: each call follows the previous grant's onExpired.
C7_SingleOutstandingGrant ==
    /\ ~overlapped
    /\ nGrants <= nExpired + 1

\* The third grant of a session is under way.
C7_Witness ==
    /\ phase = "capturing"
    /\ nGrants = 3
    /\ pc = "running"
    /\ remainingBudget_ > lastGrantedChunk_

\* C8: after stopVirtualTimeGracefully with a chunk in flight and budget
\* remaining, the expiry of that chunk schedules no further chunk and fires
\* onExpired with the elapsed time up to and including that chunk.
C8_StopEndsGrantAtInFlightChunk ==
    [][(stoppedInFlight /\ pc = "running" /\ nStops' = nStops) =>
          /\ pc' = "idle"
          /\ nExpired' = nExpired + 1
          /\ expiredArg' = totalElapsedTime_ + lastGrantedChunk_]_vars

\* C9: stopVirtualTimeGracefully called with no budget remaining changes no
\* field of the controller and no captured frame.
C9_StopAfterExpiryIsNoOp ==
    [][(nStops' = nStops + 1 /\ remainingBudget_ = 0) =>
          UNCHANGED <<ctlVars, captured, allFrameFilenames>>]_vars

\* stopVirtualTimeGracefully was called twice after a grant had expired
\* and a screenshot had been taken.
C9_Witness ==
    /\ stopsAfterExpiry = 2
    /\ nStops = 2
    /\ nExpired > 0
    /\ Len(captured) > 0
    /\ lastGrantedChunk_ > 0

C11_CaptureEveryInterval ==
    totalFramesToCapture >= 1 =>
        /\ pc = "captureSent" =>
              totalElapsedTime_ =
                  RunInitialBudget
                      + nCaptures * timeBetweenFramesInMilliseconds
        /\ nCaptures <= totalFramesToCapture
        /\ phase \in {"closingTarget", "closingCri", "killing", "finished"}
              => nCaptures = totalFramesToCapture

\* The third of three screenshots, 33 ms (two animation frame boundaries)
\* after the second.
C11_Witness ==
    /\ totalFramesToCapture = 3
    /\ timeBetweenFramesInMilliseconds = 33
    /\ pc = "captureSent"
    /\ nCaptures = 3
    /\ totalElapsedTime_ = 100

\* C12: a Runtime.exceptionThrown event is only logged: its handler changes
\* no field of the controller, no pending call, not the frame counter, the
\* frame list or the progress of the session, so a session asked for
\* N >= 1 frames still ends with the frames 1..N.
C12_ExceptionOnlyLogged ==
    /\ [][nExceptions' # nExceptions =>
             UNCHANGED <<ctlVars, pc, chunk, frameTimeTicks, runVars,
                         captured, nGrants, nCaptures, nExpired>>]_vars
    /\ [](/\ nExceptions > 0
          /\ totalFramesToCapture >= 1
          /\ phase = "finished"
          => /\ Len(allFrameFilenames) = totalFramesToCapture
             /\ \A i \in 1..Len(allFrameFilenames) :
                   FrameNumber(allFrameFilenames[i]) = i)

\* A session of three frames that handled an exception has finished.
C12_Witness ==
    /\ nExceptions = 1
    /\ totalFramesToCapture = 3
    /\ phase = "finished"
    /\ Len(allFrameFilenames) = 3

\* C13: when the encoder fails no frame file is unlinked, whatever
\* --keepFrames says; a frame file is unlinked only without --keepFrames
\* and after encoding was skipped (--noVideo) or the encoder ended well.
C13_FramesKeptOnEncoderFailure ==
    /\ encoder = "failed" => deletedFrames = <<>>
    /\ deletedFrames # <<>> =>
          /\ ~keepFrames
          /\ noVideo \/ encoder = "ended"

\* The encoder failed on three frames that were to be cleaned up.
C13_Witness ==
    /\ encoder = "failed"
    /\ ~keepFrames
    /\ Len(allFrameFilenames) = 3
    /\ deletedFrames = <<>>

\* C14: once the screenshot that brings the number of frames to N >= 1 is
\* stored, no grantTime and no captureScreenshot is called any more; the
\* encoder is started, or the frames cleaned up, only after the target and
\* the connection are closed and the browser is killed (phase "finished"
\* is entered by the continuation of launchedChrome.kill() alone).
C14_CloseBeforeEncode ==
    /\ [][(/\ totalFramesToCapture >= 1
           /\ Len(allFrameFilenames) >= totalFramesToCapture)
          => /\ nGrants' = nGrants
             /\ nCaptures' = nCaptures
             /\ pc' = "idle"]_vars
    /\ []((encoder # "none" \/ deletedFrames # <<>>) => phase = "finished")

\* Three frames were captured on four grants, the browser is gone and the
\* encoder runs.
C14_Witness ==
    /\ totalFramesToCapture = 3
    /\ nCaptures = 3
    /\ nGrants = 4
    /\ phase = "finished"
    /\ encoder = "running"

\* C15: after a protocol call of the session is rejected, no screenshot is
\* requested and no budget granted any more, the frames stored so far are
\* neither encoded nor cleaned up, and the process has a failed outcome.
C15_RejectionIsFatal ==
    /\ [][pc = "rejected" =>
             /\ nGrants' = nGrants
             /\ nCaptures' = nCaptures
             /\ pc' = "rejected"]_vars
    /\ [](pc = "rejected" =>
             /\ encoder = "none"
             /\ deletedFrames = <<>>
             /\ outcome = "failed")

\* C16: until the load event of the navigation is received, elapsedTime
\* is at most the initial budget and no grant but the initial one is made.
C16_LoadUnderInitialBudget ==
    nav # "loaded" =>
        /\ totalElapsedTime_ <= RunInitialBudget
        /\ nGrants <= 1

\* C17: every grant (grantInitialTime or grantTime) fires its onExpired
\* exactly once: the callback fires only when no budget of the grant
\* remains, it has fired once for each grant whenever the controller is
\* idle, and never more often than grants were made.
C17_OneExpiryPerGrant ==
    /\ [][nExpired' # nExpired =>
             /\ nExpired' = nExpired + 1
             /\ nExpired' = nGrants'
             /\ remainingBudget_' = 0]_vars
    /\ [](/\ nExpired <= nGrants
          /\ nGrants <= nExpired + 1
          /\ (pc = "idle" /\ nGrants > 0) => nExpired = nGrants)

\* Two grants have expired, the second one cut into several chunks and
\* revoked on the way.
C17_Witness ==
    /\ pc = "idle"
    /\ nGrants = 2
    /\ nExpired = 2
    /\ revoked
    /\ grantBudget > animationFrameInterval_

\* C18: a chunk request carries waitForNavigation exactly when elapsedTime
\* is 0 as it is sent, and of all chunk requests of a controller's life
\* (any initial budget, any grants after it) only the first carries it.
C18_NavigationWaitOnFirstChunkOnly ==
    /\ pc = "policySent" => (waitForNavigation <=> totalElapsedTime_ = 0)
    /\ navWaits = IF nChunks = 0 THEN 0 ELSE 1

\* C19: a beginFrame with noDisplayUpdates, stamped timeBase + elapsedTime,
\* is sent just before a chunk request exactly when elapsedTime > 0,
\* elapsedTime is a multiple of the animation interval and budget remains
\* (for a grant that stopVirtualTimeGracefully did not revoke meanwhile).
C19_TickAtFrameBoundary ==
    /\ pc = "tickSent" =>
          /\ totalElapsedTime_ > 0
          /\ totalElapsedTime_ % animationFrameInterval_ = 0
          /\ ~revoked => remainingBudget_ > 0
          /\ tickFrameTime =
                 virtualTimeBase_ + totalElapsedTime_ * TicksPerMs
    /\ (pc = "policySent" /\ ~revoked) =>
          (tickBefore <=>
              /\ totalElapsedTime_ > 0
              /\ totalElapsedTime_ % animationFrameInterval_ = 0
              /\ remainingBudget_ > 0)

\* The chunk after the first animation frame of 2 ms, sent after its tick
\* at the base + 2 ms, with budget left.
C19_Witness ==
    /\ pc = "policySent"
    /\ tickBefore
    /\ ~revoked
    /\ animationFrameInterval_ = 2
    /\ totalElapsedTime_ = 2
    /\ remainingBudget_ > 0
    /\ tickFrameTime = virtualTimeBase_ + 2 * TicksPerMs

\* C20: captureScreenshot sends virtualTimeBase_ + totalElapsedTime_ as the
\* frame time and changes no field of the controller in doing so; when the
\* screenshot arrives it adds the epsilon to virtualTimeBase_ and leaves
\* the elapsed time, the remaining budget, the last chunk and the
\* callbacks as they were.
C20_CaptureChangesOnlyTimeBase ==
    [][/\ nCaptures' = nCaptures + 1 =>
            /\ frameTimeTicks' =
                   virtualTimeBase_ + totalElapsedTime_ * TicksPerMs
            /\ UNCHANGED ctlVars
       /\ (pc = "captureSent" /\ pc' # "captureSent") =>
            /\ virtualTimeBase_' = virtualTimeBase_ + EpsilonTicks
            /\ EpsilonTicks > 0
            /\ UNCHANGED <<animationFrameInterval_, remainingBudget_,
                           lastGrantedChunk_, totalElapsedTime_,
                           onInstalled_, onExpired_>>]_vars

\* A first screenshot was taken after virtual time had elapsed: it was
\* sent with the base plus the elapsed time, and the base has moved on by
\* the epsilon.
C20_Witness ==
    /\ nCaptures = 1
    /\ pc = "idle"
    /\ totalElapsedTime_ > 0
    /\ virtualTimeBase_ = RunInitialVirtualTime * TicksPerMs + EpsilonTicks
    /\ frameTimeTicks =
           RunInitialVirtualTime * TicksPerMs
               + totalElapsedTime_ * TicksPerMs

\* C21: with an engine that acknowledges every request and reports the
\* expiry of every chunk, no grant of a budget of at least 1 stays without
\* its onExpired for ever (grants are made one at a time, so this is every
\* grant firing), and every session reaches the end of timeExpired with
\* its last frame stored and the browser closed.
C21_GrantsExpireAndSessionEnds ==
    /\ []<>(~(nGrants > nExpired /\ grantBudget >= 1))
    /\ <>(\/ phase = "api"
          \/ /\ phase = "finished"
             /\ pc = "idle"
             /\ Len(allFrameFilenames) >= totalFramesToCapture)

\* C22: whenever an expiry event is handled, lastGrantedChunk_ is the
\* budget of the chunk that expired (the last one sent), so the handler
\* adds that chunk to the elapsed time and takes it off the remaining
\* budget, whichever of the acknowledgment and the event is handled first.
C22_ExpiryCountsExpiredChunk ==
    [][((pc = "running" /\ pc' # "running") \/ nRaces' # nRaces) =>
          /\ lastGrantedChunk_ = chunk
          /\ totalElapsedTime_' = totalElapsedTime_ + chunk
          /\ remainingBudget_' = remainingBudget_ - chunk]_vars

\* C23: in a session, the frame times of the beginFrame requests (the full
\* frame of the installation, the display-suppressed ticks, the
\* screenshots) strictly increase in the order they are sent.
C23_FrameTimesIncrease ==
    \A i \in 1..(Len(rendered) - 1) : rendered[i] < rendered[i + 1]

====
